---- MODULE Spec2Model ----
(***************************************************************************)
(* The ix-date-input component (packages/core/src/components/date-input/   *)
(* date-input.tsx) as a state machine: the field's value, its parse/range  *)
(* validity, the form value, the events it emits, and the overlay           *)
(* (dropdown) requests it sends to the shared dropdown controller.          *)
(*                                                                         *)
(* JavaScript runs one task at a time and drains the microtask queue        *)
(* before the next task: a task action (an event handler, a lifecycle       *)
(* callback) is enabled only when the microtask queue is empty, and         *)
(* RunMicrotask runs the continuation of one await.                         *)
(***************************************************************************)
EXTENDS Integers, Sequences, FiniteSets, TLC

\* ------------------------------------------------------------------------
\* JavaScript values.  A text is a string; undefined and null are strings no
\* text of the model equals.

Undefined == "<undefined>"
Null == "<null>"
EmptyText == ""

\* !!v of a string | undefined | null
Truthy(v) == v # Undefined /\ v # Null /\ v # EmptyText

\* ------------------------------------------------------------------------
\* The inputs of the model.

FormatYMD == "yyyy/LL/dd"
NoFormat == ""

T_Feb29 == "2024/02/29"
T_Jun15 == "2024/06/15"
T_Before == "2023/12/31"
T_Feb30 == "2024/02/30"
T_Junk == "abc"
T_Min == "2024/01/01"
T_Max == "2024/12/31"

\* The texts a user types, a picker yields or a host sets.
Texts == {T_Feb29, T_Jun15, T_Before, T_Feb30, T_Junk}

\* The characters of a text.
Chars(t) ==
  CASE t = T_Feb29 -> <<"2","0","2","4","/","0","2","/","2","9">>
    [] t = T_Jun15 -> <<"2","0","2","4","/","0","6","/","1","5">>
    [] t = T_Before -> <<"2","0","2","3","/","1","2","/","3","1">>
    [] t = T_Feb30 -> <<"2","0","2","4","/","0","2","/","3","0">>
    [] t = T_Junk -> <<"a","b","c">>
    [] t = T_Min -> <<"2","0","2","4","/","0","1","/","0","1">>
    [] t = T_Max -> <<"2","0","2","4","/","1","2","/","3","1">>
    [] t = EmptyText -> <<>>

\* The fields that share the dropdown controller.
Fields == {"A", "B"}
NoField == "none"

\* ------------------------------------------------------------------------
\* DateTime.fromFormat(text, 'yyyy/LL/dd') of luxon: the text must be four
\* digits, '/', two digits, '/', two digits, and name a day of the calendar.

Digits == {"0","1","2","3","4","5","6","7","8","9"}

DigitVal(ch) ==
  CASE ch = "0" -> 0 [] ch = "1" -> 1 [] ch = "2" -> 2 [] ch = "3" -> 3
    [] ch = "4" -> 4 [] ch = "5" -> 5 [] ch = "6" -> 6 [] ch = "7" -> 7
    [] ch = "8" -> 8 [] ch = "9" -> 9

Num2(a, b) == 10 * DigitVal(a) + DigitVal(b)

IsLeapYear(y) == (y % 4 = 0 /\ y % 100 # 0) \/ y % 400 = 0

DaysInMonth(y, m) ==
  IF m = 2 THEN (IF IsLeapYear(y) THEN 29 ELSE 28)
  ELSE IF m \in {4, 6, 9, 11} THEN 30 ELSE 31

ReasonUnparsable == "unparsable"
ReasonUnitOutOfRange == "unit out of range"
\* DateTime.invalidReason of a valid date is null
ReasonNull == "null"
\* this.invalidReason when nothing is recorded
ReasonUndefined == "undefined"

InvalidDate(reason) == [isValid |-> FALSE, invalidReason |-> reason, ts |-> 0]

MatchesYMD(cs) ==
  /\ Len(cs) = 10
  /\ cs[5] = "/" /\ cs[8] = "/"
  /\ \A k \in {1, 2, 3, 4, 6, 7, 9, 10} : cs[k] \in Digits

fromFormat(text, fmt) ==
  IF fmt # FormatYMD \/ ~MatchesYMD(Chars(text)) THEN InvalidDate(ReasonUnparsable)
  ELSE LET cs == Chars(text)
           y == 100 * Num2(cs[1], cs[2]) + Num2(cs[3], cs[4])
           m == Num2(cs[6], cs[7])
           d == Num2(cs[9], cs[10])
       IN IF m \in 1..12 /\ d \in 1..DaysInMonth(y, m)
          THEN [isValid |-> TRUE, invalidReason |-> ReasonNull,
                ts |-> 10000 * y + 100 * m + d]
          ELSE InvalidDate(ReasonUnitOutOfRange)

\* A variant of DateLess that is true of equal dates.
DateLess_OrEqual(a, b) == a.isValid /\ b.isValid /\ a.ts <= b.ts

\* a < b of two DateTime: valueOf() of an invalid DateTime is NaN, and every
\* comparison with NaN is false.
DateLess(a, b) == a.isValid /\ b.isValid /\ a.ts < b.ts

\* ------------------------------------------------------------------------
\* One DateInput instance: its props, its @State members and its private
\* members, as constructed (the member initialisers of the class).

NewInstance(f, value, minDate, maxDate, format, required) ==
  [ host |-> f,
    value |-> value, minDate |-> minDate, maxDate |-> maxDate,
    format |-> format, required |-> required,
    show |-> FALSE, from |-> Null,
    isInputInvalid |-> FALSE, isInvalid |-> FALSE, isValid |-> FALSE,
    isInfo |-> FALSE, isWarning |-> FALSE,
    invalidReason |-> ReasonUndefined, touched |-> FALSE,
    formValue |-> Undefined,
    classObserver |-> FALSE, observers |-> FALSE ]

\* A handler runs on a context: the instance i, the events ev it has emitted
\* so far and the awaits aw it has reached, in order.
Ctx(i) == [i |-> i, ev |-> <<>>, aw |-> <<>>]

Event(type, f, value, pm, reason) ==
  [type |-> type, f |-> f, value |-> value, pm |-> pm, reason |-> reason]

Await(k, f, pm) == [k |-> k, f |-> f, pm |-> pm]

Emit(c, e) == [c EXCEPT !.ev = Append(@, e)]

\* this.valueChange.emit(value); the event also records the parse-invalid
\* flag at the moment of emission.
emitValueChange(c, value) ==
  Emit(c, Event("valueChange", c.i.host, value, c.i.isInputInvalid,
                ReasonUndefined))

getValidityState(i) ==
  [ badInput |-> FALSE, customError |-> FALSE,
    patternMismatch |-> i.isInputInvalid,
    rangeOverflow |-> FALSE, rangeUnderflow |-> FALSE,
    stepMismatch |-> FALSE, tooLong |-> FALSE, tooShort |-> FALSE,
    typeMismatch |-> FALSE,
    valid |-> ~i.isInputInvalid,
    valueMissing |-> i.required /\ ~Truthy(i.value) ]

\* A variant of onInputValidationChange that reports valid in the place of
\* patternMismatch.
onInputValidationChange_ReportsValid(c) ==
  [c EXCEPT !.aw = Append(@, Await("validity", c.i.host,
                                   getValidityState(c.i).valid))]

\* @Watch('isInputInvalid'): getValidityState() is called at once, and the
\* rest of the handler waits on its promise.
onInputValidationChange(c) ==
  [c EXCEPT !.aw = Append(@, Await("validity", c.i.host,
                                   getValidityState(c.i).patternMismatch))]

\* An assignment to the @State member isInputInvalid: the watcher runs when
\* the value changes.
setIsInputInvalid(c, b) ==
  IF b = c.i.isInputInvalid THEN c
  ELSE onInputValidationChange([c EXCEPT !.i.isInputInvalid = b])

\* closeDropdown() and openDropdown() up to their await of the dropdown
\* element.
closeDropdown(c) == [c EXCEPT !.aw = Append(@, Await("close", c.i.host, FALSE))]

openDropdown(c) == [c EXCEPT !.aw = Append(@, Await("open", c.i.host, FALSE))]

\* @Watch('value') watchValue
watchValue(c) == [c EXCEPT !.i.from = c.i.value]

\* The parse-invalid flag of a value: lines 301 to 305 of onInput.
inputInvalid(i, value) ==
  LET date == fromFormat(value, i.format)
      minDate == fromFormat(i.minDate, i.format)
      maxDate == fromFormat(i.maxDate, i.format)
  IN ~date.isValid \/ DateLess(date, minDate) \/ DateLess(maxDate, date)

\* date.invalidReason || undefined
recordedReason(date) ==
  IF date.invalidReason = ReasonNull THEN ReasonUndefined
  ELSE date.invalidReason

\* A variant of the invalid branch that hands the invalid text to the form.
onInputInvalid_WritesForm(c, value) ==
  [c EXCEPT !.i.invalidReason = recordedReason(fromFormat(value, c.i.format)),
            !.i.from = Undefined,
            !.i.formValue = value]

\* The branch of onInput taken when the input is invalid.
onInputInvalid(c, value) ==
  [c EXCEPT !.i.invalidReason = recordedReason(fromFormat(value, c.i.format)),
            !.i.from = Undefined]

RECURSIVE onInput(_, _)
RECURSIVE setValue(_, _)

\* @Watch('value') watchValuePropHandler
watchValuePropHandler(c, newValue) == onInput(c, newValue)

\* An assignment to the @Prop member value: when the value changes, its
\* watchers run in the order of their declaration.
setValue(c, v) ==
  IF v = c.i.value THEN c
  ELSE watchValue(watchValuePropHandler([c EXCEPT !.i.value = v], v))

setFormValue(c, v) == [c EXCEPT !.i.formValue = v]

\* A variant of updateFormInternalValue that leaves the form value alone.
updateFormInternalValue_SkipsForm(c, value) == setValue(c, value)

updateFormInternalValue(c, value) ==
  setValue(IF Truthy(value) THEN setFormValue(c, value)
           ELSE setFormValue(c, Null), value)

\* A variant of the valid branch that leaves the dropdown as it is.
onInputValid_KeepsOpen(c, value) == updateFormInternalValue(c, value)

\* The branch of onInput taken when the input is valid.
onInputValid(c, value) == closeDropdown(updateFormInternalValue(c, value))

\* A variant of onInput that emits undefined for an empty value.
onInput_ClearEmitsUndefined(c, value) ==
  LET c1 == setValue(c, value) IN
  IF ~Truthy(value) THEN emitValueChange(c1, Undefined)
  ELSE IF c1.i.format = NoFormat THEN c1
  ELSE LET c2 == setIsInputInvalid(c1, inputInvalid(c1.i, value))
           c3 == IF c2.i.isInputInvalid THEN onInputInvalid(c2, value)
                 ELSE onInputValid(c2, value)
       IN emitValueChange(c3, value)

\* A variant of onInput that emits valueChange before it recomputes
\* isInputInvalid.
onInput_EmitsBeforeRecompute(c, value) ==
  LET c1 == setValue(c, value) IN
  IF ~Truthy(value) THEN emitValueChange(c1, value)
  ELSE IF c1.i.format = NoFormat THEN c1
  ELSE LET c2 == setIsInputInvalid(emitValueChange(c1, value),
                                   inputInvalid(c1.i, value))
       IN IF c2.i.isInputInvalid THEN onInputInvalid(c2, value)
          ELSE onInputValid(c2, value)

onInput(c, value) ==
  LET c1 == setValue(c, value) IN
  IF ~Truthy(value) THEN emitValueChange(c1, value)
  ELSE IF c1.i.format = NoFormat THEN c1
  ELSE LET c2 == setIsInputInvalid(c1, inputInvalid(c1.i, value))
           c3 == IF c2.i.isInputInvalid THEN onInputInvalid(c2, value)
                 ELSE onInputValid(c2, value)
       IN emitValueChange(c3, value)

\* hasInvalidClass is hostElement.classList.contains('ix-invalid')
checkClassList(c, hasInvalidClass) == [c EXCEPT !.i.isInvalid = hasInvalidClass]

hookValidationLifecycle(c, r) ==
  [c EXCEPT !.i.isInvalid = r.isInvalid \/ r.isInvalidByRequired
                            \/ c.i.isInputInvalid,
            !.i.isInfo = r.isInfo,
            !.i.isValid = r.isValid,
            !.i.isWarning = r.isWarning]

hasValidValue(i) == Truthy(i.value)

isTouched(i) == i.touched

componentWillLoad(c, hasInvalidClass) ==
  LET c1 == onInput(c, c.i.value)
      c2 == IF c1.i.isInputInvalid THEN [c1 EXCEPT !.i.from = Null]
            ELSE watchValue(c1)
      c3 == checkClassList(c2, hasInvalidClass)
  IN updateFormInternalValue(c3, c3.i.value)

connectedCallback(c) ==
  [c EXCEPT !.i.classObserver = TRUE, !.i.observers = TRUE]

disconnectedCallback(c) ==
  [c EXCEPT !.i.classObserver = FALSE, !.i.observers = FALSE]

\* ------------------------------------------------------------------------
\* The dropdown controller shared by the fields: the registered dropdowns
\* and the visible ones.  The dropdown of field f has the identifier f.

getDropdownById(reg, id) == id \in reg

dismissAll(vis) == {}

present(vis, id) == vis \cup {id}

dismiss(vis, id) == vis \ {id}

\* A variant of openDropdownResume that does not dismiss the other dropdowns.
openDropdownResume_KeepsOthers(vis, reg, f, hasId) ==
  IF ~hasId THEN vis
  ELSE IF ~getDropdownById(reg, f) THEN vis
  ELSE present(vis, f)

\* The visible dropdowns after each call that openDropdown() makes to the
\* controller once the dropdown element is available: hasId says whether the
\* element carries data-ix-dropdown.
openDropdownCalls(vis, reg, f, hasId) ==
  LET vis1 == dismissAll(vis) IN
  IF ~hasId THEN <<vis1>>
  ELSE IF ~getDropdownById(reg, f) THEN <<vis1>>
  ELSE <<vis1, present(vis1, f)>>

\* openDropdown() after the dropdown element is available: what is visible
\* when it returns.
openDropdownResume(vis, reg, f, hasId) ==
  LET calls == openDropdownCalls(vis, reg, f, hasId) IN calls[Len(calls)]

\* A variant of closeDropdownResume that never dismisses.
closeDropdownResume_Ignored(vis, reg, f, hasId) == vis

\* closeDropdown() after the dropdown element is available.
closeDropdownResume(vis, reg, f, hasId) ==
  IF ~hasId THEN vis
  ELSE IF ~getDropdownById(reg, f) THEN vis
  ELSE dismiss(vis, f)

\* ------------------------------------------------------------------------
\* The state.

VARIABLES
  inst,            \* the DateInput instance of each field
  phase,           \* where each field is in its lifecycle
  dropdownEl,      \* dropdownElementRef.current is assigned
  dataIxDropdown,  \* the dropdown element carries data-ix-dropdown
  registered,      \* dropdowns registered with the controller
  visible,         \* dropdowns the controller shows
  focused,         \* the field whose input has the focus
  microtasks,      \* continuations ready to run, first in first out
  waiters,         \* continuations waiting for each field's dropdown element
  emitted,         \* the events emitted by the last step
  last             \* the last step: its operation, field and argument

vars == <<inst, phase, dropdownEl, dataIxDropdown, registered, visible,
          focused, microtasks, waiters, emitted, last>>

MaxWaiters == 2

Step(op, f, v) == [op |-> op, f |-> f, v |-> v]

\* The value props a field is created with, and its constraint props.
InitialValues == {EmptyText, T_Feb29, T_Feb30}
Constraints == { <<EmptyText, EmptyText, FormatYMD>>,
                 <<T_Min, T_Max, FormatYMD>>,
                 <<EmptyText, EmptyText, NoFormat>> }
\* The fields whose text and validity the model follows.
Edited == {"A"}

Init ==
  /\ inst \in [Fields -> {NewInstance(f, v, k[1], k[2], k[3], FALSE) :
                            f \in Fields, v \in InitialValues,
                            k \in Constraints}]
  /\ \A f \in Fields : inst[f].host = f
  /\ \A f \in Fields \ Edited :
        inst[f] = NewInstance(f, EmptyText, EmptyText, EmptyText, FormatYMD, FALSE)
  /\ phase = [f \in Fields |-> "constructed"]
  /\ dropdownEl = [f \in Fields |-> FALSE]
  /\ dataIxDropdown = [f \in Fields |-> FALSE]
  /\ registered = {}
  /\ visible = {}
  /\ focused = NoField
  /\ microtasks = <<>>
  /\ waiters = [f \in Fields |-> <<>>]
  /\ emitted = <<>>
  /\ last = Step("init", NoField, Undefined)

IsValidityAwait(a) == a.k = "validity"

\* The state after a handler of field f has run to its end on context c: the
\* awaits it reached wait for the dropdown element, or are ready when the
\* element is there (or when they await a resolved promise).
Finish(f, ctx, step) ==
  \E c \in {ctx} :
  /\ inst' = [inst EXCEPT ![f] = c.i]
  /\ emitted' = c.ev
  /\ microtasks' = microtasks \o
        SelectSeq(c.aw, LAMBDA a : IsValidityAwait(a) \/ dropdownEl[f])
  /\ waiters' = [waiters EXCEPT ![f] = @ \o
        SelectSeq(c.aw, LAMBDA a : ~IsValidityAwait(a) /\ ~dropdownEl[f])]
  /\ last' = step

Idle == microtasks = <<>>

Alive(f) == phase[f] \in {"connected", "loaded", "rendered"}

ConnectedCallback(f) ==
  /\ Idle /\ phase[f] = "constructed"
  /\ phase' = [phase EXCEPT ![f] = "connected"]
  /\ Finish(f, connectedCallback(Ctx(inst[f])), Step("connectedCallback", f, Undefined))
  /\ UNCHANGED <<dropdownEl, dataIxDropdown, registered, visible, focused>>

ComponentWillLoad(f, hasInvalidClass) ==
  /\ Idle /\ phase[f] = "connected"
  /\ phase' = [phase EXCEPT ![f] = "loaded"]
  /\ Finish(f, componentWillLoad(Ctx(inst[f]), hasInvalidClass),
            Step("componentWillLoad", f, Undefined))
  /\ UNCHANGED <<dropdownEl, dataIxDropdown, registered, visible, focused>>

\* The first render: the refs are assigned, and what waited for the dropdown
\* element resumes in the order it waited.
Render(f) ==
  /\ Idle /\ phase[f] = "loaded"
  /\ phase' = [phase EXCEPT ![f] = "rendered"]
  /\ dropdownEl' = [dropdownEl EXCEPT ![f] = TRUE]
  /\ microtasks' = microtasks \o waiters[f]
  /\ waiters' = [waiters EXCEPT ![f] = <<>>]
  /\ emitted' = <<>>
  /\ last' = Step("render", f, Undefined)
  /\ UNCHANGED <<inst, dataIxDropdown, registered, visible, focused>>

\* The dropdown element connects: it registers with the controller.
DropdownRegister(f) ==
  /\ Idle /\ phase[f] = "rendered" /\ f \notin registered
  /\ registered' = registered \cup {f}
  /\ emitted' = <<>>
  /\ last' = Step("dropdownRegister", f, Undefined)
  /\ UNCHANGED <<inst, phase, dropdownEl, dataIxDropdown, visible, focused,
                 microtasks, waiters>>

\* The dropdown element renders: it carries its identifier from then on.
DropdownSetId(f) ==
  /\ Idle /\ f \in registered /\ ~dataIxDropdown[f]
  /\ dataIxDropdown' = [dataIxDropdown EXCEPT ![f] = TRUE]
  /\ emitted' = <<>>
  /\ last' = Step("dropdownSetId", f, Undefined)
  /\ UNCHANGED <<inst, phase, dropdownEl, registered, visible, focused,
                 microtasks, waiters>>

\* value={this.value ?? ''} of the native input
Displayed(v) == IF v = Undefined THEN EmptyText ELSE v

\* The native input's onInput: the user has changed the text to v.
InputEvent(f, v) ==
  /\ Idle /\ phase[f] = "rendered"
  /\ v # Displayed(inst[f].value)
  /\ Finish(f, onInput(Ctx(inst[f]), v), Step("input", f, v))
  /\ UNCHANGED <<phase, dropdownEl, dataIxDropdown, registered, visible, focused>>

\* The dates a picker can yield: the texts that name a day.
PickerDates == {t \in Texts : fromFormat(t, FormatYMD).isValid} \cup {Undefined}

\* The date picker's onDateChange.
DateChange(f, v) ==
  /\ Idle /\ phase[f] = "rendered"
  /\ Finish(f, onInput(Ctx(inst[f]), v), Step("dateChange", f, v))
  /\ UNCHANGED <<phase, dropdownEl, dataIxDropdown, registered, visible, focused>>

\* The host assigns the value prop of a loaded field.
SetValueProp(f, v) ==
  /\ Idle /\ phase[f] \in {"loaded", "rendered"}
  /\ v # inst[f].value
  /\ Len(waiters[f]) < MaxWaiters
  /\ Finish(f, setValue(Ctx(inst[f]), v), Step("setValue", f, v))
  /\ UNCHANGED <<phase, dropdownEl, dataIxDropdown, registered, visible, focused>>

emitFocus(c) ==
  Emit(c, Event("ixFocus", c.i.host, Undefined, FALSE, ReasonUndefined))

\* The native input's onFocus.
onFocus(c) == emitFocus(openDropdown(c))

\* A variant of onBlur that does not record the blur.
onBlur_NotRecorded(c) ==
  Emit(c, Event("ixBlur", c.i.host, Undefined, FALSE, ReasonUndefined))

\* The native input's onBlur.
onBlur(c) ==
  [Emit(c, Event("ixBlur", c.i.host, Undefined, FALSE, ReasonUndefined))
     EXCEPT !.i.touched = TRUE]

\* onCalenderClick; inputHasFocus says whether the native input already has
\* the focus, else focus() on it runs its onFocus handler.
onCalenderClick(c, inputHasFocus) ==
  LET c1 == IF ~c.i.show THEN openDropdown(c) ELSE c
  IN IF inputHasFocus THEN c1 ELSE onFocus(c1)

Focus(f) ==
  /\ Idle /\ phase[f] = "rendered" /\ focused = NoField
  /\ focused' = f
  /\ Finish(f, onFocus(Ctx(inst[f])), Step("focus", f, Undefined))
  /\ UNCHANGED <<phase, dropdownEl, dataIxDropdown, registered, visible>>

Blur(f) ==
  /\ Idle /\ phase[f] = "rendered" /\ focused = f
  /\ focused' = NoField
  /\ Finish(f, onBlur(Ctx(inst[f])), Step("blur", f, Undefined))
  /\ UNCHANGED <<phase, dropdownEl, dataIxDropdown, registered, visible>>

CalendarClick(f) ==
  /\ Idle /\ phase[f] = "rendered" /\ focused \in {f, NoField}
  /\ focused' = f
  /\ Finish(f, onCalenderClick(Ctx(inst[f]), focused = f),
            Step("calendarClick", f, Undefined))
  /\ UNCHANGED <<phase, dropdownEl, dataIxDropdown, registered, visible>>

\* The dropdown's onShowChanged: the dropdown reports whether it is shown.
ShowChanged(f) ==
  /\ Idle /\ phase[f] = "rendered"
  /\ inst[f].show # (f \in visible)
  /\ inst' = [inst EXCEPT ![f].show = (f \in visible)]
  /\ emitted' = <<>>
  /\ last' = Step("showChanged", f, Undefined)
  /\ UNCHANGED <<phase, dropdownEl, dataIxDropdown, registered, visible,
                 focused, microtasks, waiters>>

\* The host's class list has changed: the class observer calls
\* checkClassList.
HostClassChange(f, hasInvalidClass) ==
  /\ Idle /\ Alive(f) /\ inst[f].classObserver
  /\ Finish(f, checkClassList(Ctx(inst[f]), hasInvalidClass),
            Step("classChange", f, Undefined))
  /\ UNCHANGED <<phase, dropdownEl, dataIxDropdown, registered, visible, focused>>

\* The results the validation lifecycle hands to hookValidationLifecycle.
NoFlags ==
  [isInfo |-> FALSE, isInvalid |-> FALSE, isInvalidByRequired |-> FALSE,
   isValid |-> FALSE, isWarning |-> FALSE]

ValidationResults ==
  { NoFlags,
    [NoFlags EXCEPT !.isInvalid = TRUE],
    [NoFlags EXCEPT !.isInvalidByRequired = TRUE],
    [NoFlags EXCEPT !.isValid = TRUE] }

HookValidation(f, r) ==
  /\ Idle /\ phase[f] \in {"loaded", "rendered"}
  /\ Finish(f, hookValidationLifecycle(Ctx(inst[f]), r), Step("hook", f, Undefined))
  /\ UNCHANGED <<phase, dropdownEl, dataIxDropdown, registered, visible, focused>>

\* The field leaves the document; its dropdown leaves the controller.  The
\* host can remove the field in a listener of an event the field emits, or
\* in a continuation of its own: continuations of the field can be ready.
DisconnectedCallback(f) ==
  /\ Alive(f)
  /\ phase' = [phase EXCEPT ![f] = "disconnected"]
  /\ registered' = registered \ {f}
  /\ visible' = visible \ {f}
  /\ focused' = IF focused = f THEN NoField ELSE focused
  /\ Finish(f, disconnectedCallback(Ctx(inst[f])),
            Step("disconnectedCallback", f, Undefined))
  /\ UNCHANGED <<dropdownEl, dataIxDropdown>>

\* The rest of onInputValidationChange, after its await.
validityStateChangeEvent(i, pm) ==
  Event("validityStateChange", i.host, Undefined, pm, i.invalidReason)

\* The first ready continuation runs.
RunMicrotask ==
  /\ microtasks # <<>>
  /\ LET m == Head(microtasks) IN
       /\ microtasks' = Tail(microtasks)
       /\ last' = Step(m.k, m.f, Undefined)
       /\ emitted' = IF m.k = "validity"
                     THEN <<validityStateChangeEvent(inst[m.f], m.pm)>>
                     ELSE <<>>
       /\ visible' =
            CASE m.k = "open" ->
                   openDropdownResume(visible, registered, m.f, dataIxDropdown[m.f])
              [] m.k = "close" ->
                   closeDropdownResume(visible, registered, m.f, dataIxDropdown[m.f])
              [] OTHER -> visible
  /\ UNCHANGED <<inst, phase, dropdownEl, dataIxDropdown, registered, focused,
                 waiters>>

Next ==
  \/ \E f \in Edited : ConnectedCallback(f)
  \/ \E f \in Edited, b \in BOOLEAN : ComponentWillLoad(f, b)
  \/ \E f \in Edited : Render(f)
  \/ \E f \in Edited : DropdownRegister(f)
  \/ \E f \in Edited : DropdownSetId(f)
  \/ \E f \in Edited, v \in Texts \cup {EmptyText} : InputEvent(f, v)
  \/ \E f \in Edited, v \in PickerDates : DateChange(f, v)
  \/ \E f \in Edited, v \in Texts \cup {EmptyText, Undefined} : SetValueProp(f, v)
  \/ \E f \in Edited : Focus(f)
  \/ \E f \in Edited : Blur(f)
  \/ \E f \in Edited : CalendarClick(f)
  \/ \E f \in Edited : ShowChanged(f)
  \/ \E f \in Edited, b \in BOOLEAN : HostClassChange(f, b)
  \/ \E f \in Edited, r \in ValidationResults : HookValidation(f, r)
  \/ \E f \in Edited : DisconnectedCallback(f)
  \/ RunMicrotask

Spec == Init /\ [][Next]_vars

\* ------------------------------------------------------------------------
\* The overlay requests of several fields sharing the dropdown controller:
\* every field mounts, takes the focus, is clicked and is typed into; the
\* texts typed are the valid ones, the only ones that lead to a request.

OverlayTexts == {T_Feb29, T_Jun15}
OverlayInitialValues == {EmptyText, T_Feb29}

InitOverlay ==
  /\ inst \in [Fields -> {NewInstance(f, v, EmptyText, EmptyText, FormatYMD, FALSE) :
                            f \in Fields, v \in OverlayInitialValues}]
  /\ \A f \in Fields : inst[f].host = f
  /\ phase = [f \in Fields |-> "constructed"]
  /\ dropdownEl = [f \in Fields |-> FALSE]
  /\ dataIxDropdown = [f \in Fields |-> FALSE]
  /\ registered = {}
  /\ visible = {}
  /\ focused = NoField
  /\ microtasks = <<>>
  /\ waiters = [f \in Fields |-> <<>>]
  /\ emitted = <<>>
  /\ last = Step("init", NoField, Undefined)

NextOverlay ==
  \/ \E f \in Fields : ConnectedCallback(f)
  \/ \E f \in Fields : ComponentWillLoad(f, FALSE)
  \/ \E f \in Fields : Render(f)
  \/ \E f \in Fields : DropdownRegister(f)
  \/ \E f \in Fields : DropdownSetId(f)
  \/ \E f \in Fields, v \in OverlayTexts : InputEvent(f, v)
  \/ \E f \in Fields, v \in OverlayTexts : SetValueProp(f, v)
  \/ \E f \in Fields : Focus(f)
  \/ \E f \in Fields : Blur(f)
  \/ \E f \in Fields : CalendarClick(f)
  \/ \E f \in Fields : ShowChanged(f)
  \/ \E f \in Fields : DisconnectedCallback(f)
  \/ RunMicrotask

SpecOverlay == InitOverlay /\ [][NextOverlay]_vars

\* The event loop runs a ready continuation before anything else, and does
\* not leave one waiting for ever.
SpecOverlayFair == SpecOverlay /\ WF_vars(RunMicrotask)

\* ------------------------------------------------------------------------
\* The bounds: one field with each combination of an unset or set minDate
\* and maxDate, into which dates below, on, between and above the bounds are
\* typed or set.

BoundTexts == {T_Before, T_Min, T_Feb29, T_Jun15, T_Max, T_Junk}
MinDates == {EmptyText, T_Min, T_Feb29}
MaxDates == {EmptyText, T_Jun15, T_Max}

InitBounds ==
  /\ inst \in [Fields -> {NewInstance(f, v, lo, hi, FormatYMD, FALSE) :
                            f \in Fields, v \in {EmptyText, T_Max},
                            lo \in MinDates, hi \in MaxDates}]
  /\ \A f \in Fields : inst[f].host = f
  /\ \A f \in Fields \ Edited :
        inst[f] = NewInstance(f, EmptyText, EmptyText, EmptyText, FormatYMD, FALSE)
  /\ phase = [f \in Fields |-> "constructed"]
  /\ dropdownEl = [f \in Fields |-> FALSE]
  /\ dataIxDropdown = [f \in Fields |-> FALSE]
  /\ registered = {}
  /\ visible = {}
  /\ focused = NoField
  /\ microtasks = <<>>
  /\ waiters = [f \in Fields |-> <<>>]
  /\ emitted = <<>>
  /\ last = Step("init", NoField, Undefined)

NextBounds ==
  \/ \E f \in Edited : ConnectedCallback(f)
  \/ \E f \in Edited : ComponentWillLoad(f, FALSE)
  \/ \E f \in Edited : Render(f)
  \/ \E f \in Edited, v \in BoundTexts : InputEvent(f, v)
  \/ \E f \in Edited, v \in BoundTexts : SetValueProp(f, v)
  \/ RunMicrotask

SpecBounds == InitBounds /\ [][NextBounds]_vars

\* ------------------------------------------------------------------------
\* The validity state: one field, required or not, with or without bounds,
\* into which valid, out-of-range and unparsable texts are typed or set, and
\* which is cleared.

ValidityTexts == {T_Feb29, T_Before, T_Junk}
ValidityBounds == {<<EmptyText, EmptyText>>, <<T_Min, T_Max>>}

InitValidity ==
  /\ inst \in [Fields -> {NewInstance(f, v, k[1], k[2], FormatYMD, req) :
                            f \in Fields, v \in {EmptyText, T_Feb29},
                            k \in ValidityBounds, req \in BOOLEAN}]
  /\ \A f \in Fields : inst[f].host = f
  /\ \A f \in Fields \ Edited :
        inst[f] = NewInstance(f, EmptyText, EmptyText, EmptyText, FormatYMD, FALSE)
  /\ phase = [f \in Fields |-> "constructed"]
  /\ dropdownEl = [f \in Fields |-> FALSE]
  /\ dataIxDropdown = [f \in Fields |-> FALSE]
  /\ registered = {}
  /\ visible = {}
  /\ focused = NoField
  /\ microtasks = <<>>
  /\ waiters = [f \in Fields |-> <<>>]
  /\ emitted = <<>>
  /\ last = Step("init", NoField, Undefined)

NextValidity ==
  \/ \E f \in Edited : ConnectedCallback(f)
  \/ \E f \in Edited : ComponentWillLoad(f, FALSE)
  \/ \E f \in Edited : Render(f)
  \/ \E f \in Edited, v \in ValidityTexts \cup {EmptyText} : InputEvent(f, v)
  \/ \E f \in Edited, v \in ValidityTexts \cup {EmptyText, Undefined} :
        SetValueProp(f, v)
  \/ RunMicrotask

SpecValidity == InitValidity /\ [][NextValidity]_vars

\* ------------------------------------------------------------------------
\* What the claims speak of.

\* The steps that run onInput on a value: typing, a picker selection, an
\* assignment to the value prop.
InputOps == {"input", "dateChange", "setValue"}

Range(q) == {q[k] : k \in DOMAIN q}

ValueChanges(q) == {e \in Range(q) : e.type = "valueChange"}

ValidityChanges(q) == {e \in Range(q) : e.type = "validityStateChange"}

\* v does not parse against the field's format, or parses outside
\* [minDate, maxDate].
Unacceptable(i, v) == Truthy(v) /\ inputInvalid(i, v)

Acceptable(i, v) == Truthy(v) /\ ~inputInvalid(i, v)

Parses(i, v) == Truthy(v) /\ fromFormat(v, i.format).isValid

NoReason(r) == r \in {ReasonUndefined, ReasonNull, ""}

\* The continuations of kind k of field f in a queue.
Pending(q, k, f) == SelectSeq(q, LAMBDA a : a.k = k /\ a.f = f)

C2_ValidInputCommits ==
  \A f \in Fields :
    (last.f = f /\ last.op \in InputOps /\ Acceptable(inst[f], last.v))
    => /\ ~inst[f].isInputInvalid
       /\ inst[f].value = last.v
       /\ inst[f].formValue = last.v
       /\ \E e \in ValueChanges(emitted) : e.f = f /\ e.value = last.v

\* A valid date was typed into a field that was invalid before (the reason
\* of the earlier input is still recorded).
C2_Witness ==
  /\ last = Step("input", "A", T_Jun15)
  /\ ~inst["A"].isInputInvalid
  /\ inst["A"].formValue = T_Jun15
  /\ inst["A"].invalidReason = ReasonUnparsable
  /\ inst["A"].minDate = T_Min

\* C3 as stated: in every state, a parse-invalid field is invalid.
C3_ParseInvalidDominates ==
  \A f \in Fields : inst[f].isInputInvalid => inst[f].isInvalid

\* C4: at most one dropdown is visible, and after an open request of a field
\* ran, no dropdown but that field's is visible.
C4_AtMostOneOpen ==
  /\ Cardinality(visible) <= 1
  /\ last.op = "open" => visible \subseteq {last.f}

\* B's open request ran while A's dropdown was shown: only B's is visible.
C4_Witness ==
  /\ last = Step("open", "B", Undefined)
  /\ visible = {"B"}
  /\ "A" \in registered /\ dataIxDropdown["A"]
  /\ inst["A"].show

\* C5 as stated: the valueChange of a clearing carries undefined.
C5_Original ==
  \A f \in Fields :
    (last.f = f /\ last.op = "input" /\ last.v = EmptyText)
    => \A e \in ValueChanges(emitted) : e.value = Undefined

\* C5, amended: when the text of a field holding a valid value is cleared,
\* the field is empty and not parse-invalid, and every valueChange emitted
\* for the clearing, of which there is one at least, carries the empty
\* string.
C5_ClearingEmitsEmptyText ==
  [][\A f \in Fields :
       (/\ last'.f = f /\ last'.op = "input" /\ last'.v = EmptyText
        /\ Truthy(inst[f].value) /\ ~inst[f].isInputInvalid)
       => /\ inst'[f].value = EmptyText
          /\ ~inst'[f].isInputInvalid
          /\ ValueChanges(emitted') # {}
          /\ \A e \in ValueChanges(emitted') : e.f = f /\ e.value = EmptyText]_vars

\* The text was cleared after a valid date had been committed.
C5_Witness ==
  /\ last = Step("input", "A", EmptyText)
  /\ inst["A"].value = EmptyText
  /\ inst["A"].formValue = T_Feb29
  /\ ~inst["A"].isInputInvalid
  /\ inst["A"].invalidReason = ReasonUndefined
  /\ ValueChanges(emitted) # {}

\* C6 as stated: after the text is cleared, or the value is set to
\* undefined, the field is not parse-invalid.
C6_ClearingLeavesNoInvalidFlag ==
  \A f \in Fields :
    (/\ last.f = f
     /\ \/ last.op = "input" /\ last.v = EmptyText
        \/ last.op = "setValue" /\ last.v = Undefined)
    => /\ ~Truthy(inst[f].value)
       /\ ~inst[f].isInputInvalid
       /\ ~getValidityState(inst[f]).patternMismatch

\* C7 as stated: an open request of a field whose dropdown carries no
\* identifier, or is not registered, leaves every dropdown's visibility as
\* it was.
C7_UnknownOpenChangesNothing ==
  [][\A f \in Fields :
       (/\ last'.op = "open" /\ last'.f = f
        /\ microtasks # <<>> /\ Head(microtasks) = Await("open", f, FALSE)
        /\ (~dataIxDropdown[f] \/ f \notin registered))
       => visible' = visible]_vars

\* C8 as stated: after onInput of a value that parses but lies outside
\* [minDate, maxDate], the field is invalid and its recorded reason is a
\* message, and not the one of a parse failure.
C8_RangeReason ==
  \A f \in Fields :
    (/\ last.f = f /\ last.op \in InputOps
     /\ Parses(inst[f], last.v) /\ Unacceptable(inst[f], last.v))
    => /\ inst[f].isInputInvalid
       /\ ~NoReason(inst[f].invalidReason)
       /\ inst[f].invalidReason \notin {ReasonUnparsable, ReasonUnitOutOfRange}

\* C9: a step that changes isInputInvalid of a field readies exactly one
\* validityStateChange for it, carrying the new value of the flag as
\* patternMismatch; a step that leaves the flag as it was readies none; each
\* one readied is emitted once, as it was readied, and no other step emits a
\* validityStateChange.
C9_OneValidityChangePerFlip ==
  [][\A f \in Fields :
       LET before == Pending(microtasks, "validity", f)
           after == Pending(microtasks', "validity", f)
           flipped == inst'[f].isInputInvalid # inst[f].isInputInvalid
           mine == {e \in ValidityChanges(emitted') : e.f = f}
       IN IF last'.op = "validity" /\ last'.f = f
          THEN /\ ~flipped
               /\ before # <<>> /\ after = Tail(before)
               /\ Len(emitted') = 1
               /\ \E e \in mine : e.pm = Head(before).pm
          ELSE /\ mine = {}
               /\ after = before \o
                    (IF flipped
                     THEN <<Await("validity", f, inst'[f].isInputInvalid)>>
                     ELSE <<>>)]_vars

\* The validityStateChange of a field that has just become invalid was
\* emitted, with patternMismatch true.
C9_Witness ==
  /\ last = Step("validity", "A", Undefined)
  /\ inst["A"].isInputInvalid
  /\ inst["A"].formValue = T_Feb29
  /\ \E e \in ValidityChanges(emitted) : e.f = "A" /\ e.pm

\* C10: every valueChange carrying a non-empty value is emitted with
\* isInputInvalid already recomputed for that value; a step that runs
\* onInput changes no dropdown's visibility, and a close request is pending
\* only once the flag says the value is valid: the controller is called in
\* a later step.
C10_RecomputedBeforeEmit ==
  [][/\ \A e \in ValueChanges(emitted') :
          Truthy(e.value) => e.pm = inputInvalid(inst'[e.f], e.value)
     /\ \A f \in Fields :
          LET closes == Len(Pending(microtasks \o waiters[f], "close", f))
              closes2 == Len(Pending(microtasks' \o waiters'[f], "close", f))
          IN /\ closes2 > closes =>
                  /\ ~inst'[f].isInputInvalid
                  /\ Acceptable(inst'[f], inst'[f].value)
                  /\ visible' = visible
             /\ (last'.f = f /\ last'.op \in InputOps) => visible' = visible]_vars

\* An invalid text was typed over a valid date: its valueChange was emitted
\* with the flag already true.
C10_Witness ==
  /\ last = Step("input", "A", T_Before)
  /\ inst["A"].formValue = T_Jun15
  /\ inst["A"].isInputInvalid
  /\ \E e \in ValueChanges(emitted) : e.value = T_Before /\ e.pm

\* C11 as stated: in every state in which a field is parse-invalid, it shows
\* the invalid category only: none of isValid, isWarning, isInfo is true,
\* whatever the validation hook has supplied.
C11_InvalidCategoryOnly ==
  \A f \in Fields :
    inst[f].isInputInvalid
    => ~(inst[f].isValid \/ inst[f].isWarning \/ inst[f].isInfo)

\* C12: when onInput has accepted a value of a field whose dropdown is
\* visible, the dropdown is dismissed in the end (no open request can come
\* before the close request has run); and a close request of a field removes
\* that field's dropdown from the visible ones and no other.
C12_ValidInputClosesOverlay ==
  /\ \A f \in Fields :
       (/\ last.op \in InputOps /\ last.f = f
        /\ Acceptable(inst[f], last.v)
        /\ f \in visible)
       ~> (f \notin visible)
  /\ [][\A f \in Fields :
          (last'.op = "close" /\ last'.f = f) => visible' = visible \ {f}]_vars

\* A's close request has dismissed A's dropdown, which was shown; B has
\* taken no step, so nothing else can have dismissed it.
C12_Witness ==
  /\ last = Step("close", "A", Undefined)
  /\ "A" \notin visible
  /\ inst["A"].show
  /\ phase["B"] = "constructed"

\* The open and close requests in a queue of continuations.
Requests(q) == SelectSeq(q, LAMBDA a : ~IsValidityAwait(a))

\* C13: while the dropdown element of a field is not there, the requests of
\* the field wait in the order they were issued, none of them is ready and
\* no step of the field changes what the controller shows; when the element
\* arrives they become ready in that order; a request runs only once the
\* element is there, the first ready one first, and the visibility of the
\* field's dropdown after it is that of this request alone: shown after an
\* open request that finds the dropdown, hidden after a close request.
C13_RequestsWaitForElement ==
  [][\A f \in Fields :
       /\ ~dropdownEl'[f] =>
            /\ \A k \in DOMAIN microtasks' :
                 microtasks'[k].f = f => IsValidityAwait(microtasks'[k])
            /\ Len(waiters'[f]) >= Len(waiters[f])
            /\ SubSeq(waiters'[f], 1, Len(waiters[f])) = waiters[f]
            /\ last'.f = f => visible' = visible
       /\ (last'.op = "render" /\ last'.f = f) =>
            /\ microtasks' = microtasks \o waiters[f]
            /\ waiters'[f] = <<>>
            /\ visible' = visible
       /\ (last'.op \in {"open", "close"} /\ last'.f = f) =>
            /\ dropdownEl[f]
            /\ microtasks # <<>>
            /\ Head(microtasks).k = last'.op /\ Head(microtasks).f = f
            /\ microtasks' = Tail(microtasks)
            /\ f \in visible' <=>
                 (last'.op = "open" /\ f \in registered /\ dataIxDropdown[f])]_vars

\* A has rendered: the two close requests issued before, by the load and by
\* an assignment to the value, are ready in the order they waited.
C13_Witness ==
  /\ last = Step("render", "A", Undefined)
  /\ Len(Requests(microtasks)) >= 2
  /\ \A k \in DOMAIN microtasks : microtasks[k] = Await("close", "A", FALSE)
  /\ waiters["A"] = <<>>
  /\ "B" \in visible

\* C14 as stated: an open request of a field whose dropdown is visible
\* leaves the visible dropdowns as they are after each call it makes to the
\* controller (no dropdown is hidden and shown again), and a close request
\* of a field whose dropdown is not visible leaves them as they are.
C14_IdempotentRequests ==
  [][\A f \in Fields :
       LET calls == openDropdownCalls(visible, registered, f, dataIxDropdown[f])
       IN /\ (last'.op = "open" /\ last'.f = f /\ f \in visible) =>
               /\ visible' = visible
               /\ \A k \in DOMAIN calls : calls[k] = visible
          /\ (last'.op = "close" /\ last'.f = f /\ f \notin visible) =>
               visible' = visible]_vars

\* C15 as stated: a disconnected field has released its observers, and a
\* request of the field that resumes after the field was disconnected
\* changes no dropdown's visibility.
C15_UnmountDetachesWaits ==
  [][\A f \in Fields :
       /\ phase'[f] = "disconnected" =>
            ~inst'[f].classObserver /\ ~inst'[f].observers
       /\ (/\ phase[f] = "disconnected"
           /\ last'.op \in {"open", "close"} /\ last'.f = f)
          => visible' = visible]_vars

\* The day a text names, as a number that grows with the date.
Day(i, v) == fromFormat(v, i.format).ts

\* C16: after onInput of a value that parses against the field's format,
\* the field is not parse-invalid exactly when the value is not before
\* minDate and not after maxDate, both parsed with the same format and both
\* inclusive, a bound that is the empty string restricting nothing; so with
\* both bounds empty every value that parses is accepted.
C16_InclusiveBounds ==
  \A f \in Fields :
    (last.f = f /\ last.op \in InputOps /\ Parses(inst[f], last.v))
    => LET i == inst[f]
           lowerOk == i.minDate = EmptyText
                      \/ (Parses(i, i.minDate) /\ Day(i, i.minDate) <= Day(i, last.v))
           upperOk == i.maxDate = EmptyText
                      \/ (Parses(i, i.maxDate) /\ Day(i, last.v) <= Day(i, i.maxDate))
       IN /\ ~i.isInputInvalid <=> (lowerOk /\ upperOk)
          /\ (i.minDate = EmptyText /\ i.maxDate = EmptyText) => ~i.isInputInvalid

\* The date that is the lower bound was typed: it is accepted and
\* committed.
C16_Witness ==
  /\ last = Step("input", "A", T_Feb29)
  /\ inst["A"].minDate = T_Feb29 /\ inst["A"].maxDate = T_Jun15
  /\ inst["A"].invalidReason = ReasonUndefined
  /\ ~inst["A"].isInputInvalid
  /\ inst["A"].formValue = T_Feb29

\* C17: isTouched() is false of a new field; a blur of the field's input
\* makes it true; no step makes it false again, and no step but a blur of
\* the field makes it true.
C17_TouchedOnceBlurred ==
  /\ \A f \in Fields : ~isTouched(inst[f])
  /\ [][\A f \in Fields :
          /\ isTouched(inst[f]) => isTouched(inst'[f])
          /\ (~isTouched(inst[f]) /\ isTouched(inst'[f]))
             => last' = Step("blur", f, Undefined)
          /\ (last'.op = "blur" /\ last'.f = f) => isTouched(inst'[f])]_vars

\* The value was set to undefined after a blur: the field is still touched.
C17_Witness ==
  /\ last = Step("setValue", "A", Undefined)
  /\ isTouched(inst["A"])
  /\ inst["A"].value = Undefined
  /\ inst["A"].show

\* C18 as stated: a native input event or a picker selection that changes
\* the text of a field emits one valueChange, and it carries the new value.
C18_OneValueChangePerAction ==
  [][\A f \in Fields :
       (/\ last'.f = f /\ last'.op \in {"input", "dateChange"}
        /\ Displayed(last'.v) # Displayed(inst[f].value))
       => /\ Len(SelectSeq(emitted', LAMBDA e : e.type = "valueChange")) = 1
          /\ \A e \in ValueChanges(emitted') : e.f = f /\ e.value = last'.v]_vars

\* C19 as stated: after the load of a field, a typed text, a picker
\* selection or an assignment to the value, with every watcher run, the date
\* handed to the picker is the value when the field is not parse-invalid,
\* and is empty (null, undefined or the empty string) when it is.
C19_PickerFollowsValue ==
  \A f \in Fields :
    (last.f = f /\ last.op \in InputOps \cup {"componentWillLoad"})
    => IF inst[f].isInputInvalid THEN ~Truthy(inst[f].from)
       ELSE inst[f].from = inst[f].value

\* C20 as stated: in every state of a loaded field, the form value is the
\* value when the value is not empty and is acceptable, and is null when the
\* value is empty.
C20_FormValueInSync ==
  \A f \in Fields :
    phase[f] \in {"loaded", "rendered"}
    => /\ Acceptable(inst[f], inst[f].value) => inst[f].formValue = inst[f].value
       /\ ~Truthy(inst[f].value) => inst[f].formValue = Null

\* C21 as stated: in every state getValidityState() reports patternMismatch
\* equal to isInputInvalid, valid as its negation, valueMissing true exactly
\* of a required field with an empty value, and every other flag false; a
\* date outside the bounds is reported as patternMismatch; and a required
\* field that is empty is reported valid together with valueMissing.
C21_ValidityStateFlags ==
  \A f \in Fields :
    LET i == inst[f]
        s == getValidityState(i)
    IN /\ s.valid = ~s.patternMismatch
       /\ s.patternMismatch = i.isInputInvalid
       /\ s.valueMissing = (i.required /\ ~Truthy(i.value))
       /\ ~(\/ s.badInput \/ s.customError \/ s.rangeOverflow
            \/ s.rangeUnderflow \/ s.stepMismatch \/ s.tooLong \/ s.tooShort
            \/ s.typeMismatch)
       /\ (/\ last.f = f /\ last.op \in InputOps
           /\ Parses(i, last.v) /\ Unacceptable(i, last.v))
          => s.patternMismatch
       /\ (/\ phase[f] \in {"loaded", "rendered"}
           /\ i.required /\ ~Truthy(i.value))
          => (s.valid /\ s.valueMissing)

\* C22 as stated: in every state, hasValidValue() is true only of a field
\* whose value is not empty and which is not parse-invalid.
C22_ValidValueIsValid ==
  \A f \in Fields :
    hasValidValue(inst[f])
    => (Truthy(inst[f].value) /\ ~inst[f].isInputInvalid)

====
